---- MODULE Spec2Model ----
(***************************************************************************)
(* xtd::basic_string_view: a non-owning (pointer, length) window over      *)
(* backing character storage, with its sub-view, comparison, predicate     *)
(* and search operations, and its stream inserter.                          *)
(*                                                                         *)
(* Addresses are integers.  The backing storage occupies the addresses     *)
(* 1..StoreLen; the null pointer is address 0.  A read of an address       *)
(* outside the storage is undefined behaviour and yields an arbitrary      *)
(* character.  size_type is an unsigned integer of SizeBits bits.          *)
(***************************************************************************)
EXTENDS Integers, Sequences, FiniteSets, TLC

\* ---------------------------------------------------------------- bounds
StoreLen == 3
MaxChar == 2
SizeBits == 3

Chars == 1..MaxChar
SizeMod == 2 ^ SizeBits
SizeMax == SizeMod - 1

\* ------------------------------------------------------------- constants
Null == 0
nullopt == 0 - 1

VARIABLES mem, ndebug, v, x, res, os

vars == <<mem, ndebug, v, x, res, os>>

\* ------------------------------------------------------------ arithmetic
Min(a, b) == IF a <= b THEN a ELSE b

Sign(i) == IF i < 0 THEN 0 - 1 ELSE IF i > 0 THEN 1 ELSE 0

\* unsigned size_type arithmetic
SizeAdd(a, b) == (a + b) % SizeMod

SizeSub(a, b) == (a - b + SizeMod) % SizeMod

\* ---------------------------------------------------------------- memory
StoreAddrs == 1..StoreLen

\* the addresses outside the storage that the operations can touch: the one
\* before the storage, the one past its end, and those that a comparison
\* running over the end of the storage reaches
BeforeStore == {0}

PastStore == {StoreLen + 1}

BeyondStore == (StoreLen + 1)..(2 * StoreLen - 1)

\* the characters an execution sees: the storage, and arbitrary characters
\* (junk) at the addresses outside of it
Memory(junk) == [p \in StoreAddrs \cup DOMAIN junk |-> IF p \in StoreAddrs THEN mem[p] ELSE junk[p]]

\* ----------------------------------------------------------------- views
View(data, len) == [data |-> data, len |-> len]

\* every window of the storage, empty windows (one past the end too) included
Windows == {View(p, n) : p \in 1..(StoreLen + 1), n \in 0..StoreLen} \cap {w \in [data : 1..(StoreLen + 1), len : 0..StoreLen] : w.data + w.len <= StoreLen + 1}

DefaultView == View(Null, 0)

PtrLenView_unguarded(chars, len) == View(chars, len)

PtrLenView(chars, len) == View(chars, IF chars # Null THEN len ELSE 0)

FirstLastView(first, last) == View(first, SizeSub(last, first))

\* Traits::length of a C string that starts at p and ends with the storage:
\* the terminator follows the last character of the storage
TraitsLength(p) == StoreLen + 1 - p

CStringView(chars) == View(chars, IF chars # Null THEN TraitsLength(chars) ELSE 0)

\* from an owning string: str.data(), str.size()
StringView(data, len) == View(data, len)

\* from an initializer list: chars.begin(), chars.size()
InitListView(first, len) == View(first, len)

size(s) == s.len

begin(s) == s.data

end(s) == s.data + size(s)

NoRes == [op |-> "none", out |-> "void", val |-> 0, rev |-> 0, data |-> 0, len |-> 0, pos |-> 0, n |-> 0]

\* ---------------------------------------------------------- preconditions
\* assert(_data): evaluated in debug builds only
assertNonNull(s) == ndebug \/ s.data # Null

assertNonEmpty(s) == ndebug \/ s.len > 0

\* TRUE: the position is accepted; FALSE: std::out_of_range is thrown
checkPosition(s, pos) == ~(pos >= size(s))

\* ------------------------------------------------------------ sub-viewing
offset(s, pos) == s.data + (IF pos >= size(s) THEN size(s) ELSE pos)

tail_short(s, pos, n) == IF n = nullopt \/ SizeAdd(n, pos) > size(s) THEN SizeSub(SizeSub(size(s), pos), 1) ELSE n

tail(s, pos, n) == IF n = nullopt \/ SizeAdd(n, pos) > size(s) THEN SizeSub(size(s), pos) ELSE n

substr_unchecked(s, pos, n) == [out |-> "view", data |-> offset(s, pos), len |-> tail(s, pos, n)]

substr(s, pos, n) == IF checkPosition(s, pos) THEN [out |-> "view", data |-> offset(s, pos), len |-> tail(s, pos, n)] ELSE [out |-> "out_of_range", data |-> 0, len |-> 0]

\* ------------------------------------------------------------- comparison
RECURSIVE TraitsCompare(_, _, _, _)
TraitsCompare(M, p, q, n) == IF n = 0 THEN 0 ELSE IF M[p] < M[q] THEN 0 - 1 ELSE IF M[p] > M[q] THEN 1 ELSE TraitsCompare(M, p + 1, q + 1, n - 1)

SizeOrder(s, t) == IF size(s) = size(t) THEN 0 ELSE IF size(s) < size(t) THEN 0 - 1 ELSE 1

compare(M, s, t) == IF Min(size(s), size(t)) <= 0 THEN SizeOrder(s, t) ELSE IF TraitsCompare(M, s.data, t.data, s.len) # 0 THEN TraitsCompare(M, s.data, t.data, s.len) ELSE SizeOrder(s, t)


\* ------------------------------------------------------ character traits
\* Traits::find(p, n, ch) != nullptr
TraitsFind(M, p, n, ch) == \E k \in 0..(n - 1) : M[p + k] = ch

\* the n characters at p and at q are pairwise Traits::eq
RangeEq(M, p, q, n) == \A k \in 0..(n - 1) : M[p + k] = M[q + k]

\* ------------------------------------------------------- element access
Ok(out, val) == [out |-> out, val |-> val]

Asserted == Ok("assert", 0)

Thrown == Ok("out_of_range", 0)

Bool(b) == Ok("bool", IF b THEN 1 ELSE 0)

Index(M, s, pos) == IF ~assertNonNull(s) \/ ~assertNonEmpty(s) THEN Asserted ELSE Ok("char", M[s.data + pos])

at(M, s, pos) == IF ~assertNonNull(s) THEN Asserted ELSE IF ~checkPosition(s, pos) THEN Thrown ELSE Index(M, s, pos)

front(M, s) == Index(M, s, 0)

back(M, s) == Index(M, s, SizeSub(size(s), 1))

\* ----------------------------------------------------------- predicates
starts_with_strict(M, s, prefix) == IF ~assertNonNull(s) \/ ~assertNonNull(prefix) THEN Asserted ELSE Bool(size(s) > size(prefix) /\ TraitsCompare(M, s.data, prefix.data, size(prefix)) = 0)

starts_with(M, s, prefix) == IF ~assertNonNull(s) \/ ~assertNonNull(prefix) THEN Asserted ELSE Bool(size(s) >= size(prefix) /\ TraitsCompare(M, s.data, prefix.data, size(prefix)) = 0)

starts_with_ch(M, s, ch) == IF ~(size(s) > 0) THEN Bool(FALSE) ELSE IF front(M, s).out = "assert" THEN Asserted ELSE Bool(ch = front(M, s).val)

ends_with(M, s, suffix) == IF ~assertNonNull(s) \/ ~assertNonNull(suffix) THEN Asserted ELSE Bool(size(s) >= size(suffix) /\ TraitsCompare(M, s.data + size(s) - size(suffix), suffix.data, size(suffix)) = 0)

ends_with_ch(M, s, ch) == IF ~(size(s) > 0) THEN Bool(FALSE) ELSE IF back(M, s).out = "assert" THEN Asserted ELSE Bool(ch = back(M, s).val)

\* ------------------------------------------------------------ searching
\* std::search: the first position of [first, last) where [sfirst, slast)
\* occurs; first when the needle is empty; last when it does not occur
RECURSIVE StdSearch(_, _, _, _, _)
StdSearch(M, first, last, sfirst, slast) == IF sfirst = slast THEN first ELSE IF last - first < slast - sfirst THEN last ELSE IF RangeEq(M, first, sfirst, slast - sfirst) THEN first ELSE StdSearch(M, first + 1, last, sfirst, slast)

\* std::find_end: the last position where the needle occurs; last when the
\* needle is empty or does not occur
RECURSIVE FindEndFrom(_, _, _, _, _, _)
FindEndFrom(M, first, last, sfirst, slast, result) == IF StdSearch(M, first, last, sfirst, slast) = last THEN result ELSE FindEndFrom(M, StdSearch(M, first, last, sfirst, slast) + 1, last, sfirst, slast, StdSearch(M, first, last, sfirst, slast))

StdFindEnd(M, first, last, sfirst, slast) == IF sfirst = slast THEN last ELSE FindEndFrom(M, first, last, sfirst, slast, last)

Some(i) == Ok("some", i)

None == Ok("none", 0)

forwardIterOffset_begin(s, it) == IF it = begin(s) THEN None ELSE Some(it - begin(s))

forwardIterOffset(s, it) == IF it = end(s) THEN None ELSE Some(it - begin(s))

\* a reverse iterator is represented by its base(); it reads base() - 1
reverseIterOffset(s, it) == IF it = begin(s) THEN None ELSE Some(it - 1 - begin(s))

find(M, s, t) == IF ~assertNonNull(s) THEN Asserted ELSE forwardIterOffset(s, StdSearch(M, begin(s), end(s), begin(t), end(t)))

rfind(M, s, t) == IF ~assertNonNull(s) THEN Asserted ELSE forwardIterOffset(s, StdFindEnd(M, begin(s), end(s), begin(t), end(t)))

\* findNotOf over forward iterators: the iterator is advanced by the loop
\* condition before it is read
RECURSIVE findNotOf(_, _, _, _)
findNotOf(M, first, last, s) == IF first = last THEN last ELSE IF ~TraitsFind(M, s.data, size(s), M[first + 1]) THEN first + 1 ELSE findNotOf(M, first + 1, last, s)

\* findNotOf over reverse iterators (given and returned as base())
RECURSIVE findNotOfReverse(_, _, _, _)
findNotOfReverse(M, first, last, s) == IF first = last THEN last ELSE IF ~TraitsFind(M, s.data, size(s), M[(first - 1) - 1]) THEN first - 1 ELSE findNotOfReverse(M, first - 1, last, s)

find_first_not_of(M, s, t) == IF ~assertNonNull(s) THEN Asserted ELSE forwardIterOffset(s, findNotOf(M, begin(s), end(s), t))

find_last_not_of(M, s, t) == reverseIterOffset(s, findNotOfReverse(M, end(s), begin(s), t))


\* ---------------------------------------------------------------- stream
\* the fill character of a new stream: the blank, which is no character of
\* the storage
Space == 0

FillChars == {Space} \cup Chars

\* the field widths set on the stream: none, and up to two over the storage
Widths == 0..(StoreLen + 2)

\* os.flags() & adjustfield: no bit set, left, right
Adjust == {"none", "left", "right"}

\* the formatting state of a std::basic_ostream after its construction
NewStream == [width |-> 0, fill |-> Space, adjust |-> "none"]

\* sputn(s.data(), s.size())
Content(M, s) == [i \in 1..size(s) |-> M[s.data + i - 1]]

\* std::fill_n(std::ostreambuf_iterator<CharT>{os}, n, c)
FillN(n, c) == [i \in 1..n |-> c]

\* the conversion of a std::streamsize to size_type in width > s.size() and
\* width - s.size()
ToSize(w) == w % SizeMod

\* the characters that operator << puts into the stream buffer
InserterOutput_swapped(M, o, s) == IF ToSize(o.width) > size(s) THEN (IF o.adjust = "left" THEN FillN(SizeSub(ToSize(o.width), size(s)), o.fill) \o Content(M, s) ELSE Content(M, s) \o FillN(SizeSub(ToSize(o.width), size(s)), o.fill)) ELSE Content(M, s)

InserterOutput(M, o, s) == IF ToSize(o.width) > size(s) THEN (IF o.adjust = "left" THEN Content(M, s) \o FillN(SizeSub(ToSize(o.width), size(s)), o.fill) ELSE FillN(SizeSub(ToSize(o.width), size(s)), o.fill) \o Content(M, s)) ELSE Content(M, s)

\* os.width(0)
WidthReset(o) == [o EXCEPT !.width = 0]

\* ---------------------------------------------------------------- actions
Init ==
    /\ mem \in [StoreAddrs -> Chars]
    /\ ndebug \in BOOLEAN
    /\ v = DefaultView
    /\ x = DefaultView
    /\ res = NoRes
    /\ os = NewStream

ConstructDefault ==
    /\ v' = DefaultView
    /\ res' = NoRes
    /\ UNCHANGED <<os, mem, ndebug, x>>

ConstructPtrLen ==
    \E w \in Windows \cup {View(Null, n) : n \in 0..StoreLen} :
        /\ v' = PtrLenView(w.data, w.len)
        /\ res' = NoRes
        /\ UNCHANGED <<os, mem, ndebug, x>>

ConstructFirstLast ==
    \E w \in Windows \cup {DefaultView} :
        /\ v' = FirstLastView(w.data, w.data + w.len)
        /\ res' = NoRes
        /\ UNCHANGED <<os, mem, ndebug, x>>

Swap ==
    /\ v' = x
    /\ x' = v
    /\ res' = NoRes
    /\ UNCHANGED <<os, mem, ndebug>>

\* the positions passed to substr and at: inside, at and past the end
Positions == 0..(StoreLen + 1)

\* the lengths passed to substr: absent, up to and over the storage length,
\* and so large that pos + n wraps around
Lengths == {nullopt} \cup 0..(StoreLen + 1) \cup {SizeMax - 1, SizeMax}

Substr ==
    \E pos \in Positions, n \in Lengths :
        /\ res' = [NoRes EXCEPT !.op = "substr", !.pos = pos, !.n = n, !.out = substr(v, pos, n).out, !.data = substr(v, pos, n).data, !.len = substr(v, pos, n).len]
        /\ UNCHANGED <<os, mem, ndebug, v, x>>

Compare ==
    \E junk \in [BeyondStore -> Chars] :
        /\ res' = [NoRes EXCEPT !.op = "compare", !.out = "int", !.val = compare(Memory(junk), v, x)]
        /\ UNCHANGED <<os, mem, ndebug, v, x>>

\* the reverse comparison x.compare(v), evaluated after v.compare(x) as the
\* relational operators do for the two orders of a pair
CompareReverse ==
    /\ res.op = "compare"
    /\ \E junk \in [BeyondStore -> Chars] :
        res' = [res EXCEPT !.op = "compare_both", !.rev = compare(Memory(junk), x, v)]
    /\ UNCHANGED <<os, mem, ndebug, v, x>>

At ==
    \E pos \in Positions :
        /\ res' = [NoRes EXCEPT !.op = "at", !.pos = pos, !.out = at(mem, v, pos).out, !.val = at(mem, v, pos).val]
        /\ UNCHANGED <<os, mem, ndebug, v, x>>

StartsWith ==
    /\ res' = [NoRes EXCEPT !.op = "starts_with", !.out = starts_with(mem, v, x).out, !.val = starts_with(mem, v, x).val]
    /\ UNCHANGED <<os, mem, ndebug, v, x>>

EndsWith ==
    /\ res' = [NoRes EXCEPT !.op = "ends_with", !.out = ends_with(mem, v, x).out, !.val = ends_with(mem, v, x).val]
    /\ UNCHANGED <<os, mem, ndebug, v, x>>

StartsWithChar ==
    \E ch \in Chars :
        /\ res' = [NoRes EXCEPT !.op = "starts_with_ch", !.pos = ch, !.out = starts_with_ch(mem, v, ch).out, !.val = starts_with_ch(mem, v, ch).val]
        /\ UNCHANGED <<os, mem, ndebug, v, x>>

EndsWithChar ==
    \E ch \in Chars :
        /\ res' = [NoRes EXCEPT !.op = "ends_with_ch", !.pos = ch, !.out = ends_with_ch(mem, v, ch).out, !.val = ends_with_ch(mem, v, ch).val]
        /\ UNCHANGED <<os, mem, ndebug, v, x>>

Find ==
    /\ res' = [NoRes EXCEPT !.op = "find", !.out = find(mem, v, x).out, !.val = find(mem, v, x).val]
    /\ UNCHANGED <<os, mem, ndebug, v, x>>

Rfind ==
    /\ res' = [NoRes EXCEPT !.op = "rfind", !.out = rfind(mem, v, x).out, !.val = rfind(mem, v, x).val]
    /\ UNCHANGED <<os, mem, ndebug, v, x>>

FindFirstNotOf ==
    \E junk \in [PastStore -> Chars] :
        /\ res' = [NoRes EXCEPT !.op = "find_first_not_of", !.out = find_first_not_of(Memory(junk), v, x).out, !.val = find_first_not_of(Memory(junk), v, x).val]
        /\ UNCHANGED <<os, mem, ndebug, v, x>>

FindLastNotOf ==
    \E junk \in [BeforeStore -> Chars] :
        /\ res' = [NoRes EXCEPT !.op = "find_last_not_of", !.out = find_last_not_of(Memory(junk), v, x).out, !.val = find_last_not_of(Memory(junk), v, x).val]
        /\ UNCHANGED <<os, mem, ndebug, v, x>>


ConstructCString ==
    \E chars \in {Null} \cup 1..(StoreLen + 1) :
        /\ v' = CStringView(chars)
        /\ res' = NoRes
        /\ UNCHANGED <<os, mem, ndebug, x>>

ConstructString ==
    \E w \in Windows :
        /\ v' = StringView(w.data, w.len)
        /\ res' = NoRes
        /\ UNCHANGED <<os, mem, ndebug, x>>

\* the begin() of an empty initializer list may be null
ConstructInitList ==
    \E w \in Windows \cup {DefaultView} :
        /\ v' = InitListView(w.data, w.len)
        /\ res' = NoRes
        /\ UNCHANGED <<os, mem, ndebug, x>>

\* copy assignment from the other view
Assign ==
    /\ v' = x
    /\ res' = NoRes
    /\ UNCHANGED <<os, mem, ndebug, x>>

\* ------------------------------------------------------------- modifiers
clear(s) == DefaultView

remove_prefix(s, n) == View(s.data + n, SizeSub(s.len, n))

remove_suffix_moved(s, n) == View(s.data + n, SizeSub(s.len, n))

remove_suffix(s, n) == View(s.data, SizeSub(s.len, n))

\* a pointer that pointer arithmetic may produce: null (from null + 0), into
\* the storage, or one past its end
ValidPtr(p) == p \in 0..(StoreLen + 1)

\* the calls of remove_prefix and remove_suffix made in a row: the view they
\* started from and the sums of the removed prefixes and suffixes
Removed(name, n) == IF res.op \in {"remove_prefix", "remove_suffix"} THEN [res EXCEPT !.op = name, !.prefixes = @ + (IF name = "remove_prefix" THEN n ELSE 0), !.suffixes = @ + (IF name = "remove_suffix" THEN n ELSE 0)] ELSE [op |-> name, out |-> "void", start |-> v, prefixes |-> (IF name = "remove_prefix" THEN n ELSE 0), suffixes |-> (IF name = "remove_suffix" THEN n ELSE 0)]

Clear ==
    /\ v' = clear(v)
    /\ res' = [NoRes EXCEPT !.op = "clear"]
    /\ UNCHANGED <<os, mem, ndebug, x>>

\* called within its precondition n <= size()
RemovePrefix ==
    \E n \in 0..size(v) :
        /\ ValidPtr(v.data + n)
        /\ v' = remove_prefix(v, n)
        /\ res' = Removed("remove_prefix", n)
        /\ UNCHANGED <<os, mem, ndebug, x>>

RemoveSuffix ==
    \E n \in 0..size(v) :
        /\ v' = remove_suffix(v, n)
        /\ res' = Removed("remove_suffix", n)
        /\ UNCHANGED <<os, mem, ndebug, x>>

\* v = v.substr(pos, n): the view is assigned the sub-view when substr
\* returns one, and is left as it is when substr throws
AssignSubstr ==
    \E pos \in Positions, n \in Lengths :
        /\ ValidPtr(offset(v, pos))
        /\ v' = (IF substr(v, pos, n).out = "view" THEN View(substr(v, pos, n).data, substr(v, pos, n).len) ELSE v)
        /\ res' = [NoRes EXCEPT !.op = "assign_substr", !.out = substr(v, pos, n).out]
        /\ UNCHANGED <<os, mem, ndebug, x>>


\* -------------------------------------------------------- stream actions
\* os.width(w)
SetWidth ==
    \E w \in Widths :
        /\ os' = [os EXCEPT !.width = w]
        /\ res' = NoRes
        /\ UNCHANGED <<mem, ndebug, v, x>>

\* os.fill(c)
SetFill ==
    \E c \in FillChars :
        /\ os' = [os EXCEPT !.fill = c]
        /\ res' = NoRes
        /\ UNCHANGED <<mem, ndebug, v, x>>

\* os.setf(a, adjustfield)
SetAdjust ==
    \E a \in Adjust :
        /\ os' = [os EXCEPT !.adjust = a]
        /\ res' = NoRes
        /\ UNCHANGED <<mem, ndebug, v, x>>

\* os << v.  The stream is good or not when the sentry is constructed, and
\* its buffer throws or not: when the stream is not good failbit is set and
\* nothing is written; when the buffer throws badbit is set and the
\* exception leaves the operator before the width is reset.  again: the
\* write follows a completed write with no call in between.
Insert ==
    \E ok \in BOOLEAN, thrown \in BOOLEAN :
        /\ os' = (IF ok /\ ~thrown THEN WidthReset(os) ELSE os)
        /\ res' = [op |-> "insert", out |-> (IF ~ok THEN "failbit" ELSE IF thrown THEN "badbit" ELSE "written"), width |-> os.width, again |-> (res.op = "insert" /\ res.out = "written"), put |-> (IF ok /\ ~thrown THEN InserterOutput(mem, os, v) ELSE << >>)]
        /\ UNCHANGED <<mem, ndebug, v, x>>

\* the view is constructed anew or assigned from a newly constructed view
Construct ==
    \/ ConstructDefault
    \/ ConstructPtrLen
    \/ ConstructFirstLast

Next ==
    \/ Construct
    \/ Swap
    \/ Substr
    \/ Compare
    \/ CompareReverse
    \/ At
    \/ StartsWith
    \/ EndsWith
    \/ StartsWithChar
    \/ EndsWithChar
    \/ Find
    \/ Rfind
    \/ FindFirstNotOf
    \/ FindLastNotOf

\* every sequence of member calls
Spec == Init /\ [][Next]_vars

\* The const members leave the views and the storage unchanged, so the views
\* that a program reaches are those that the constructors and swap produce.
\* The specifications below are Spec restricted to one family of const
\* members each; they reach the same views and storage as Spec.

\* sub-viewing: substr on every view
NextSubstr ==
    \/ Construct
    \/ Substr

SpecSubstr == Init /\ [][NextSubstr]_vars

\* comparison of every pair of views, in both orders
NextCompare ==
    \/ Construct
    \/ Swap
    \/ Compare
    \/ CompareReverse

SpecCompare == Init /\ [][NextCompare]_vars

\* checked element access on every view
NextAccess ==
    \/ Construct
    \/ At

SpecAccess == Init /\ [][NextAccess]_vars

\* prefix and suffix predicates on every pair of views
NextPredicate ==
    \/ Construct
    \/ Swap
    \/ StartsWith
    \/ EndsWith
    \/ StartsWithChar
    \/ EndsWithChar

SpecPredicate == Init /\ [][NextPredicate]_vars

\* searches on every pair of views
NextSearch ==
    \/ Construct
    \/ Swap
    \/ Find
    \/ Rfind
    \/ FindFirstNotOf
    \/ FindLastNotOf

SpecSearch == Init /\ [][NextSearch]_vars

\* construction and modification: every constructor, assignment and modifier.
\* None of them reads a character of the storage, so one storage content
\* stands for all.
InitModifiers == Init /\ mem = [p \in StoreAddrs |-> 1]

NextModifiers ==
    \/ Construct
    \/ ConstructCString
    \/ ConstructString
    \/ ConstructInitList
    \/ Assign
    \/ Swap
    \/ Clear
    \/ RemovePrefix
    \/ RemoveSuffix
    \/ AssignSubstr

SpecModifiers == InitModifiers /\ [][NextModifiers]_vars

\* shrinking the window: clear, remove_prefix and remove_suffix on every
\* view over every storage content
NextWindow ==
    \/ Construct
    \/ Clear
    \/ RemovePrefix
    \/ RemoveSuffix

SpecWindow == Init /\ [][NextWindow]_vars

\* formatted output of every view to a stream of every width, fill character
\* and adjustment
NextStream ==
    \/ Construct
    \/ SetWidth
    \/ SetFill
    \/ SetAdjust
    \/ Insert

SpecStream == Init /\ [][NextStream]_vars

\* ------------------------------------------------ what the claims speak of
\* the i-th character of a view over the storage
CharAt(s, i) == mem[s.data + i]

\* indices at which the common prefix of two views differs
PrefixDiffs(s, t) == {i \in 0..(Min(size(s), size(t)) - 1) : CharAt(s, i) # CharAt(t, i)}

FirstDiff(s, t) == CHOOSE i \in PrefixDiffs(s, t) : \A j \in PrefixDiffs(s, t) : i <= j

\* lexicographic order of the common prefix, then shorter first
ExpectedOrder(s, t) == IF PrefixDiffs(s, t) # {} THEN (IF CharAt(s, FirstDiff(s, t)) < CharAt(t, FirstDiff(s, t)) THEN 0 - 1 ELSE 1) ELSE Sign(size(s) - size(t))

SameContent(s, t) == size(s) = size(t) /\ PrefixDiffs(s, t) = {}

\* the needle t occurs in s at index i
Matches(s, t, i) == i + size(t) <= size(s) /\ \A k \in 0..(size(t) - 1) : CharAt(s, i + k) = CharAt(t, k)

\* the character c is a member of the character set t
InSet(t, c) == \E k \in 0..(size(t) - 1) : CharAt(t, k) = c

\* indices of s whose character is not a member of t
NotOf(s, t) == {i \in 0..(size(s) - 1) : ~InSet(t, CharAt(s, i))}

Least(S) == CHOOSE i \in S : \A j \in S : i <= j

Greatest(S) == CHOOSE i \in S : \A j \in S : i >= j

\* ------------------------------------------------------------------ claims
\* C1: a.compare(b) has the sign of the lexicographic comparison of the
\* first min(a.size(), b.size()) characters, and on an equal common prefix
\* the sign of a.size() - b.size(); no character at an index beyond the
\* common prefix influences the result.
C1_CompareCommonPrefix == res.op \in {"compare", "compare_both"} => Sign(res.val) = ExpectedOrder(v, x)

\* C2: compare is antisymmetric in sign: a.compare(b) < 0 exactly when
\* b.compare(a) > 0, and a.compare(b) = 0 exactly when b.compare(a) = 0,
\* which holds exactly when sizes and characters agree.
C2_CompareAntisymmetric == res.op = "compare_both" => ((res.val < 0 <=> res.rev > 0) /\ (res.val = 0 <=> res.rev = 0) /\ (res.val = 0 <=> SameContent(v, x)))

\* C3: for pos < size(), substr(pos, n) is the view at data() + pos of size
\* min(n, size() - pos), or size() - pos when n is absent, also when
\* pos + n wraps around in the size type.
C3_SubstrWindow == (res.op = "substr" /\ res.pos < size(v)) => (res.out = "view" /\ res.data = v.data + res.pos /\ res.len = (IF res.n = nullopt THEN size(v) - res.pos ELSE Min(res.n, size(v) - res.pos)))

\* C4: substr(pos, n) fails with out-of-range for every pos >= size() and
\* every n, present or absent, also on an empty view; it produces no view
\* and leaves the receiver unchanged.
C4_SubstrOutOfRange == [][(res'.op = "substr" /\ res'.pos >= size(v)) => (res'.out = "out_of_range" /\ res'.data = Null /\ res'.len = 0 /\ v' = v)]_vars

C4_Witness == res.op = "substr" /\ res.pos = size(v) /\ size(v) = 0 /\ v.data # Null /\ res.n # nullopt /\ res.out = "out_of_range"

\* C5 (as stated): for every non-null view v, of length 0 included,
\* v.substr(0) succeeds and compares equal to v.
C5_FullSubstrAnyNonNull == (res.op = "substr" /\ res.pos = 0 /\ res.n = nullopt /\ v.data # Null) => (res.out = "view" /\ \A junk \in [BeyondStore -> Chars] : compare(Memory(junk), View(res.data, res.len), v) = 0)

\* C5 (amended): for every non-empty view v, v.substr(0) succeeds and
\* compares equal to v; on an empty view substr(0) fails with out-of-range.
C5_FullSubstrNonEmpty == (res.op = "substr" /\ res.pos = 0 /\ res.n = nullopt) => IF size(v) > 0 THEN (res.out = "view" /\ \A junk \in [BeyondStore -> Chars] : compare(Memory(junk), View(res.data, res.len), v) = 0) ELSE res.out = "out_of_range"

C5_Witness == res.op = "substr" /\ res.pos = 0 /\ res.n = nullopt /\ size(v) = StoreLen /\ res.out = "view" /\ res.len = StoreLen

\* C6: on a non-null view, a present find(s) is the least index where s
\* occurs and a present rfind(s) the greatest; when a non-empty s occurs
\* somewhere, both are present.
C6_FindRoundTrip ==
    (res.op \in {"find", "rfind"} /\ v.data # Null) =>
    /\ res.out \in {"some", "none"}
    /\ (res.out = "some" => (res.val \in 0..size(v) /\ Matches(v, x, res.val)))
    /\ ((res.out = "some" /\ res.op = "find") => \A j \in 0..(res.val - 1) : ~Matches(v, x, j))
    /\ ((res.out = "some" /\ res.op = "rfind") => \A j \in (res.val + 1)..size(v) : ~Matches(v, x, j))
    /\ ((size(x) > 0 /\ \E i \in 0..size(v) : Matches(v, x, i)) => res.out = "some")

C6_Witness == res.op = "rfind" /\ res.out = "some" /\ res.val > 0 /\ size(x) > 0 /\ \E j \in 0..(res.val - 1) : Matches(v, x, j)

\* C7: find of an empty sub-view returns a present index 0 on every
\* non-null receiver, a non-null receiver of length 0 included.
C7_FindEmptyNeedle == (res.op = "find" /\ v.data # Null /\ size(x) = 0) => (res.out = "some" /\ res.val = 0)

\* C8 (as stated): starts_with(view) and ends_with(view) are false on an
\* empty receiver with a non-empty argument and true on an empty argument,
\* for every receiver, null-backed ones included, without a failed
\* precondition; the single-character variants are false on an empty
\* receiver.
C8_PrefixSuffixAnyReceiver ==
    /\ ((res.op \in {"starts_with", "ends_with"} /\ size(v) = 0 /\ size(x) > 0) => (res.out = "bool" /\ res.val = 0))
    /\ ((res.op \in {"starts_with", "ends_with"} /\ size(x) = 0) => (res.out = "bool" /\ res.val = 1))
    /\ ((res.op \in {"starts_with_ch", "ends_with_ch"} /\ size(v) = 0) => (res.out = "bool" /\ res.val = 0))

\* C8 (amended): the same, for a receiver and an argument that are both
\* non-null; the single-character variants are false on every empty
\* receiver.
C8_PrefixSuffixNonNull ==
    /\ ((res.op \in {"starts_with", "ends_with"} /\ v.data # Null /\ x.data # Null /\ size(v) = 0 /\ size(x) > 0) => (res.out = "bool" /\ res.val = 0))
    /\ ((res.op \in {"starts_with", "ends_with"} /\ v.data # Null /\ x.data # Null /\ size(x) = 0) => (res.out = "bool" /\ res.val = 1))
    /\ ((res.op \in {"starts_with_ch", "ends_with_ch"} /\ size(v) = 0) => (res.out = "bool" /\ res.val = 0))

C8_Witness == res.op = "starts_with" /\ v.data # Null /\ x.data # Null /\ size(v) = 0 /\ size(x) = 0 /\ res.out = "bool" /\ res.val = 1

\* C9: on a non-null view, find_first_not_of(s) is the least and
\* find_last_not_of(s) the greatest index whose character is not a member
\* of s, and each is absent exactly when there is no such index.
C9_FindNotOf == (res.op \in {"find_first_not_of", "find_last_not_of"} /\ v.data # Null) => IF NotOf(v, x) = {} THEN res.out = "none" ELSE (res.out = "some" /\ res.val = (IF res.op = "find_first_not_of" THEN Least(NotOf(v, x)) ELSE Greatest(NotOf(v, x))))

\* C10: at(pos) raises out-of-range whenever pos >= size(), on every view,
\* a default-constructed one included, and otherwise returns the character
\* at pos; it never ends in an assertion failure.
C10_AtChecked == res.op = "at" => IF res.pos >= size(v) THEN res.out = "out_of_range" ELSE (res.out = "char" /\ res.val = CharAt(v, res.pos))

\* C11: in every view that the constructors, assignment, swap, clear,
\* remove_prefix and remove_suffix within their precondition, and successful
\* substr produce, size() > 0 implies data() != null; a view constructed
\* from a null pointer has size 0 whatever length was requested.
C11_NonEmptyIsNonNull == (size(v) > 0 => v.data # Null) /\ (size(x) > 0 => x.data # Null)

C11_Witness == res.op = "remove_prefix" /\ res.prefixes > 0 /\ res.start.len > StoreLen /\ size(v) > 0 /\ v.data # Null /\ x.data = Null

\* C13: after remove_prefix and remove_suffix calls made within their
\* precondition on a view of length L at p, data() is p plus the sum of the
\* removed prefixes and size() is L minus the sums of the removed prefixes
\* and suffixes; remove_suffix leaves data() unchanged; the storage is
\* unchanged; clear() yields data() = null and size() = 0.
C13_WindowShrinks == [][/\ (res'.op \in {"remove_prefix", "remove_suffix"} => (v'.data = res'.start.data + res'.prefixes /\ size(v') = res'.start.len - res'.prefixes - res'.suffixes))
    /\ (res'.op = "remove_suffix" => v'.data = v.data)
    /\ (res'.op = "clear" => (v'.data = Null /\ size(v') = 0))
    /\ (res'.op \in {"remove_prefix", "remove_suffix", "clear"} => mem' = mem)]_vars

C13_Witness == res.op = "remove_suffix" /\ res.prefixes > 0 /\ res.suffixes > 0 /\ size(v) > 0 /\ res.start.len = StoreLen

\* the characters of a view, in order
Characters(s) == [i \in 1..size(s) |-> CharAt(s, i - 1)]

\* k copies of the character c
Copies(k, c) == [i \in 1..k |-> c]

TypeOK ==
    /\ mem \in [StoreAddrs -> Chars]
    /\ ndebug \in BOOLEAN
    /\ v \in Windows \cup {DefaultView}
    /\ x \in Windows \cup {DefaultView}
    /\ os \in [width : Widths, fill : FillChars, adjust : Adjust]
====
